---- MODULE Spec2Model ----
(***************************************************************************)
(* A model of topo_order_commits.py: discovery of the .git directory, the  *)
(* commit graph builder, the topological sequencer and the renderer.       *)
(*                                                                         *)
(* Commit hashes are the integers 1..NumCommits; their lexicographic order *)
(* is the order of the integers.  Branch names are the integers            *)
(* 1..MaxBranches.  A directory is its depth below the root (0 = "/").     *)
(***************************************************************************)
EXTENDS Integers, Sequences, FiniteSets, TLC

NumCommits == 4
MaxParents == 2
MaxEdges == 3
MaxBranches == 2
MaxDepth == 2

Commits == 1..NumCommits
Dirs == 0..MaxDepth

VARIABLES
    pc,            \* position in topo_order_commits()
    cwd,           \* os.getcwd()
    git_dirs,      \* the directories that hold a .git directory
    store,         \* .git/objects: hash -> [exists, lines]
    refs,          \* .git/refs/heads: branch name -> head hash
    branches,      \* the list returned by get_branches
    graph,         \* build_commit_graph: hash -> CommitNode
    visited,       \* build_commit_graph: visited
    stack,         \* build_commit_graph: stack
    in_degree,     \* topo_sort: in_degree
    next_choices,  \* topo_sort: next_choices
    order,         \* topo_sort: order
    current,       \* topo_sort: current, <<>> for None
    i,             \* ordered_print: the number of commits printed so far
    out,           \* the lines printed on standard output
    stderr         \* what was written to standard error

vars == <<pc, cwd, git_dirs, store, refs, branches, graph, visited, stack,
          in_degree, next_choices, order, current, i, out, stderr>>

-----------------------------------------------------------------------------
(* Sequences *)

Range(s) == {s[k] : k \in 1..Len(s)}

Contains(s, x) == \E k \in 1..Len(s) : s[k] = x

SeqsUpTo(S, n) == UNION {[1..k -> S] : k \in 0..n}

RECURSIVE Insert(_, _)
Insert(s, x) ==
    IF s = <<>> THEN <<x>>
    ELSE IF x < Head(s) THEN <<x>> \o s
    ELSE <<Head(s)>> \o Insert(Tail(s), x)

\* a list left in the order it was built
unsorted(s) == s

\* list.sort() / sorted(list): ascending, duplicates kept
RECURSIVE sorted(_)
sorted(s) == IF s = <<>> THEN <<>> ELSE Insert(sorted(Tail(s)), Head(s))

\* sorted(set)
RECURSIVE sorted_set(_)
sorted_set(S) ==
    IF S = {} THEN <<>>
    ELSE LET m == CHOOSE x \in S : \A y \in S : x <= y
         IN <<m>> \o sorted_set(S \ {m})

\* list.remove(x): drops the first occurrence of x
RECURSIVE remove(_, _)
remove(s, x) ==
    IF s = <<>> THEN <<>>
    ELSE IF Head(s) = x THEN Tail(s)
    ELSE <<Head(s)>> \o remove(Tail(s), x)

-----------------------------------------------------------------------------
(* The object store and the file system *)

\* the decompressed lines of a commit object with the given parents
CommitLines(c, ps) ==
    <<[key |-> "tree", value |-> c]>>
    \o [k \in 1..Len(ps) |-> [key |-> "parent", value |-> ps[k]]]
    \o <<[key |-> "author", value |-> c]>>

NoObject == [exists |-> FALSE, lines |-> <<>>]

\* the "parent <hash>" lines of an object, in recorded order
RECURSIVE parent_hashes(_)
parent_hashes(lines) ==
    IF lines = <<>> THEN <<>>
    ELSE IF Head(lines).key = "parent"
         THEN <<Head(lines).value>> \o parent_hashes(Tail(lines))
         ELSE parent_hashes(Tail(lines))

StoreParents(s, c) == parent_hashes(s[c].lines)

\* the objects a commit c may have with k "parent" lines
ObjectsWith(c, k) ==
    {[exists |-> TRUE, lines |-> CommitLines(c, ps)] : ps \in [1..k -> Commits]}
    \cup (IF k = 0 THEN {NoObject} ELSE {})

\* the stores of the commits 1..c with at most n "parent" lines in all
RECURSIVE StoresUpTo(_, _)
StoresUpTo(c, n) ==
    IF c = 0 THEN {<<>>}
    ELSE UNION {{Append(s, obj) : s \in StoresUpTo(c - 1, n - k), obj \in ObjectsWith(c, k)} :
                   k \in {j \in 0..MaxParents : j <= n}}

Stores == StoresUpTo(NumCommits, MaxEdges)

RefSets == UNION {[1..k -> Commits] : k \in 0..MaxBranches}

dirname(d) == IF d = 0 THEN 0 ELSE d - 1

in_git_directory == cwd \in git_dirs

\* the directory whose .git is returned, <<>> when the walk reaches the root
RECURSIVE walk_up(_)
walk_up(d) ==
    IF d = dirname(d) THEN <<>>
    ELSE IF d \in git_dirs THEN <<d>>
    ELSE walk_up(dirname(d))

get_git_directory == walk_up(cwd)

Permutations_of(f) ==
    {p \in [DOMAIN f -> DOMAIN f] : \A a, b \in DOMAIN f : p[a] = p[b] => a = b}

\* every order in which os.walk may list the ref files
BranchLists(r) ==
    {[k \in DOMAIN r |-> <<p[k], r[p[k]]>>] : p \in Permutations_of(r)}

-----------------------------------------------------------------------------
(* build_commit_graph *)

CommitNode(h) == [commit_hash |-> h, parents |-> <<>>, children |-> {}]

EnsureNode(g, h) ==
    IF h \in DOMAIN g THEN g
    ELSE [k \in DOMAIN g \cup {h} |-> IF k = h THEN CommitNode(h) ELSE g[k]]

\* link_parents without the update of the parent's children
RECURSIVE link_parents_no_children(_, _, _, _)
link_parents_no_children(g, s, commit_hash, ps) ==
    IF ps = <<>> THEN <<g, s>>
    ELSE link_parents_no_children(EnsureNode(g, Head(ps)), Append(s, Head(ps)),
                                  commit_hash, Tail(ps))

\* the loop over parent_hashes: <<graph, stack>> after it
RECURSIVE link_parents(_, _, _, _)
link_parents(g, s, commit_hash, ps) ==
    IF ps = <<>> THEN <<g, s>>
    ELSE LET parent_hash == Head(ps)
             g1 == EnsureNode(g, parent_hash)
             g2 == [g1 EXCEPT ![parent_hash].children = @ \cup {commit_hash}]
         IN link_parents(g2, Append(s, parent_hash), commit_hash, Tail(ps))

\* on_missing with the node created only after the object was read
on_missing_no_node(g, commit_hash) == g

\* what the except-branch leaves behind for a commit whose object is absent
on_missing(g, commit_hash) == EnsureNode(g, commit_hash)

\* the body of the loop for a commit whose object was read
expand(g, s, commit_hash, ps) ==
    LET g1 == EnsureNode(g, commit_hash)
        g2 == [g1 EXCEPT ![commit_hash].parents = ps]
    IN link_parents(g2, s, commit_hash, ps)

\* one iteration of the work-list loop: <<graph, visited, stack>>
build_iter(st, g, v, s) ==
    LET commit_hash == s[Len(s)]
        s1 == SubSeq(s, 1, Len(s) - 1)
    IN IF commit_hash \in v THEN <<g, v, s1>>
       ELSE IF ~st[commit_hash].exists
            THEN <<on_missing(g, commit_hash), v \cup {commit_hash}, s1>>
            ELSE LET r == expand(g, s1, commit_hash, StoreParents(st, commit_hash))
                 IN <<r[1], v \cup {commit_hash}, r[2]>>

RECURSIVE build_loop(_, _, _, _)
build_loop(st, g, v, s) ==
    IF s = <<>> THEN g
    ELSE LET r == build_iter(st, g, v, s) IN build_loop(st, r[1], r[2], r[3])

initial_stack(branches_list) == [k \in 1..Len(branches_list) |-> branches_list[k][2]]

build_commit_graph(st, branches_list) ==
    build_loop(st, <<>>, {}, initial_stack(branches_list))

-----------------------------------------------------------------------------
(* topo_sort *)

initial_in_degree(g) == [ch \in DOMAIN g |-> Cardinality(g[ch].children)]

initial_choices(g) == sorted_set({ch \in DOMAIN g : initial_in_degree(g)[ch] = 0})

\* release with the test in_degree[parent] <= 0
RECURSIVE release_at_most_zero(_, _, _)
release_at_most_zero(deg, nc, ps) ==
    IF ps = <<>> THEN <<deg, nc>>
    ELSE LET parent == Head(ps)
             deg1 == [deg EXCEPT ![parent] = @ - 1]
         IN release_at_most_zero(deg1,
                                 IF deg1[parent] <= 0 THEN Append(nc, parent) ELSE nc,
                                 Tail(ps))

\* the loop over node.parents of the emitted commit: <<in_degree, next_choices>>
RECURSIVE release(_, _, _)
release(deg, nc, ps) ==
    IF ps = <<>> THEN <<deg, nc>>
    ELSE LET parent == Head(ps)
             deg1 == [deg EXCEPT ![parent] = @ - 1]
         IN release(deg1,
                    IF deg1[parent] = 0 THEN Append(nc, parent) ELSE nc,
                    Tail(ps))

\* the commit selected by one iteration
select(g, nc, cur) ==
    IF cur # <<>> /\ g[cur[1]].parents # <<>> /\ Contains(nc, g[cur[1]].parents[1])
    THEN g[cur[1]].parents[1]
    ELSE nc[1]

\* next_choices once the selected commit is taken out of it
take(g, nc, cur) ==
    IF cur # <<>> /\ g[cur[1]].parents # <<>> /\ Contains(nc, g[cur[1]].parents[1])
    THEN remove(nc, g[cur[1]].parents[1])
    ELSE Tail(nc)

\* one iteration of the sequencer loop: <<in_degree, next_choices, order, current>>
topo_iter(g, deg, nc, ord, cur) ==
    LET chosen == select(g, nc, cur)
        r == release(deg, take(g, nc, cur), g[chosen].parents)
    IN <<r[1], sorted(r[2]), Append(ord, chosen), <<chosen>>>>

RECURSIVE topo_loop(_, _, _, _, _)
topo_loop(g, deg, nc, ord, cur) ==
    IF nc = <<>> THEN ord
    ELSE LET r == topo_iter(g, deg, nc, ord, cur)
         IN topo_loop(g, r[1], r[2], r[3], r[4])

topo_sort(g) == topo_loop(g, initial_in_degree(g), initial_choices(g), <<>>, <<>>)

-----------------------------------------------------------------------------
(* ordered_print *)

\* a printed line is a sequence of tokens; the empty line is <<>>
Hash(c) == [t |-> "hash", v |-> c]
Name(b) == [t |-> "name", v |-> b]
Eq == [t |-> "=", v |-> 0]

Hashes(s) == [k \in 1..Len(s) |-> Hash(s[k])]

Names(s) == [k \in 1..Len(s) |-> Name(s[k])]

\* the names of the branches whose head is the commit, in list order
RECURSIVE names_of(_, _)
names_of(branches_list, commit) ==
    IF branches_list = <<>> THEN <<>>
    ELSE IF Head(branches_list)[2] = commit
         THEN <<Head(branches_list)[1]>> \o names_of(Tail(branches_list), commit)
         ELSE names_of(Tail(branches_list), commit)

head_to_branches(branches_list) ==
    [commit \in {branches_list[k][2] : k \in 1..Len(branches_list)} |->
        names_of(branches_list, commit)]

\* commit_line with the branch names in the order of the branch list
commit_line_list_order(commit, h2b) ==
    <<Hash(commit)>> \o
    (IF commit \in DOMAIN h2b THEN Names(h2b[commit]) ELSE <<>>)

commit_line(commit, h2b) ==
    <<Hash(commit)>> \o
    (IF commit \in DOMAIN h2b THEN Names(sorted(h2b[commit])) ELSE <<>>)

\* is_sticky without the test of next_commit
is_sticky_any_next(g, commit, next_commit) == g[commit].parents # <<>>

\* whether the sticky-end lines follow the line of commit
is_sticky(g, commit, next_commit) ==
    g[commit].parents # <<>> /\ ~Contains(g[commit].parents, next_commit)

sticky_end(g, commit) == Hashes(sorted(g[commit].parents)) \o <<Eq>>

sticky_start(g, next_commit) == <<Eq>> \o Hashes(sorted_set(g[next_commit].children))

\* the lines printed for position k of the order
print_iter(g, ord, h2b, k) ==
    <<commit_line(ord[k], h2b)>> \o
    (IF k < Len(ord) /\ is_sticky(g, ord[k], ord[k + 1])
     THEN <<sticky_end(g, ord[k]), <<>>, sticky_start(g, ord[k + 1])>>
     ELSE <<>>)

RECURSIVE print_loop(_, _, _, _)
print_loop(g, ord, h2b, k) ==
    IF k > Len(ord) THEN <<>>
    ELSE print_iter(g, ord, h2b, k) \o print_loop(g, ord, h2b, k + 1)

ordered_print(g, ord, h2b) == print_loop(g, ord, h2b, 1)

-----------------------------------------------------------------------------
(* topo_order_commits *)

NotInside == "Not inside a Git repository"

Idle ==
    /\ branches = <<>> /\ graph = <<>> /\ visited = {} /\ stack = <<>>
    /\ in_degree = <<>> /\ next_choices = <<>> /\ order = <<>> /\ current = <<>>
    /\ i = 0 /\ out = <<>> /\ stderr = <<>>

\* a repository in the working directory, any object store, any refs
Init ==
    /\ pc = "start"
    /\ cwd = 1 /\ git_dirs = {1}
    /\ store \in Stores
    /\ refs \in RefSets
    /\ Idle

Start ==
    /\ pc = "start"
    /\ IF in_git_directory /\ get_git_directory # <<>>
       THEN pc' = "branches" /\ stderr' = stderr
       ELSE pc' = "exit1" /\ stderr' = Append(stderr, NotInside)
    /\ UNCHANGED <<cwd, git_dirs, store, refs, branches, graph, visited, stack,
                   in_degree, next_choices, order, current, i, out>>

GetBranches ==
    /\ pc = "branches"
    /\ \E bl \in BranchLists(refs) :
          /\ branches' = bl
          /\ stack' = initial_stack(bl)
    /\ graph' = <<>> /\ visited' = {}
    /\ pc' = "build"
    /\ UNCHANGED <<cwd, git_dirs, store, refs,
                   in_degree, next_choices, order, current, i, out, stderr>>

BuildIter ==
    /\ pc = "build" /\ stack # <<>>
    /\ get_git_directory # <<>>
    /\ LET r == build_iter(store, graph, visited, stack)
       IN graph' = r[1] /\ visited' = r[2] /\ stack' = r[3]
    /\ UNCHANGED <<pc, cwd, git_dirs, store, refs, branches,
                   in_degree, next_choices, order, current, i, out, stderr>>

\* the commit popped was visited before
BuildSkip == BuildIter /\ stack[Len(stack)] \in visited

\* the object of the commit popped is absent (FileNotFoundError)
BuildMissing ==
    BuildIter /\ stack[Len(stack)] \notin visited /\ ~store[stack[Len(stack)]].exists

\* the object of the commit popped was read
BuildExpand ==
    BuildIter /\ stack[Len(stack)] \notin visited /\ store[stack[Len(stack)]].exists

TopoInit ==
    /\ pc = "build" /\ stack = <<>>
    /\ in_degree' = initial_in_degree(graph)
    /\ next_choices' = initial_choices(graph)
    /\ order' = <<>> /\ current' = <<>>
    /\ pc' = "sort"
    /\ UNCHANGED <<cwd, git_dirs, store, refs, branches, graph, visited, stack,
                   i, out, stderr>>

TopoIter ==
    /\ pc = "sort" /\ next_choices # <<>>
    /\ LET r == topo_iter(graph, in_degree, next_choices, order, current)
       IN in_degree' = r[1] /\ next_choices' = r[2] /\ order' = r[3] /\ current' = r[4]
    /\ UNCHANGED <<pc, cwd, git_dirs, store, refs, branches, graph, visited, stack,
                   i, out, stderr>>

TopoReturn ==
    /\ pc = "sort" /\ next_choices = <<>>
    /\ pc' = "print" /\ i' = 0
    /\ UNCHANGED <<cwd, git_dirs, store, refs, branches, graph, visited, stack,
                   in_degree, next_choices, order, current, out, stderr>>

PrintIter ==
    /\ pc = "print" /\ i < Len(order)
    /\ out' = out \o print_iter(graph, order, head_to_branches(branches), i + 1)
    /\ i' = i + 1
    /\ UNCHANGED <<pc, cwd, git_dirs, store, refs, branches, graph, visited, stack,
                   in_degree, next_choices, order, current, stderr>>

Finish ==
    /\ pc = "print" /\ i = Len(order)
    /\ pc' = "exit0"
    /\ UNCHANGED <<cwd, git_dirs, store, refs, branches, graph, visited, stack,
                   in_degree, next_choices, order, current, i, out, stderr>>

Next ==
    \/ Start
    \/ GetBranches
    \/ BuildSkip
    \/ BuildMissing
    \/ BuildExpand
    \/ TopoInit
    \/ TopoIter
    \/ TopoReturn
    \/ PrintIter
    \/ Finish

Spec == Init /\ [][Next]_vars

-----------------------------------------------------------------------------
(* Other sets of inputs *)

\* the parents recorded in the object of c, none when the object is absent
Succ(st, c) == IF st[c].exists THEN Range(StoreParents(st, c)) ELSE {}

RECURSIVE Closure(_, _)
Closure(st, S) ==
    LET T == S \cup UNION {Succ(st, c) : c \in S}
    IN IF T = S THEN S ELSE Closure(st, T)

\* the commits reached from c by one or more parent links
Ancestors(st, c) == Closure(st, Succ(st, c))

OnCycle(st, c) == c \in Ancestors(st, c)

Acyclic(st) == \A c \in Commits : ~OnCycle(st, c)

Heads == {refs[b] : b \in DOMAIN refs}

Reachable == Closure(store, Heads)

\* an acyclic object store: merges, several roots, absent objects and repeated
\* parent lines included
AcyclicStores == {st \in Stores : Acyclic(st)}

InitAcyclic ==
    /\ pc = "start"
    /\ cwd = 1 /\ git_dirs = {1}
    /\ store \in AcyclicStores
    /\ refs \in RefSets
    /\ Idle

SpecAcyclic == InitAcyclic /\ [][Next]_vars

\* every commit has at most one parent
SingleParent(st) == \A c \in Commits : Len(StoreParents(st, c)) <= 1

SingleParentStores == {st \in AcyclicStores : SingleParent(st)}

\* any working directory, with .git directories in it or above it
InitDirs ==
    /\ pc = "start"
    /\ cwd \in Dirs
    /\ git_dirs \in SUBSET (0..cwd)
    /\ store \in SingleParentStores
    /\ refs \in RefSets
    /\ Idle

SpecDirs == InitDirs /\ [][Next]_vars

Sorted == pc \in {"print", "exit0"}

\* the place of pc in the run
Rank(p) ==
    CASE p = "start" -> 0
      [] p = "branches" -> 1
      [] p = "build" -> 2
      [] p = "sort" -> 3
      [] p = "print" -> 4
      [] OTHER -> 5

Unvisited == Commits \ visited

\* the iterations the builder may still spend on the commits of S
RECURSIVE Work(_)
Work(S) ==
    IF S = {} THEN 0
    ELSE LET c == CHOOSE y \in S : TRUE
         IN 1 + Len(StoreParents(store, c)) + Work(S \ {c})

\* a bound on the iterations the loop at pc still has to make
Remaining ==
    CASE pc = "build" -> Len(stack) + Work(Unvisited)
      [] pc = "sort" -> Len(next_choices)
                        + Cardinality({c \in DOMAIN in_degree : in_degree[c] > 0})
      [] pc = "print" -> Len(order) - i
      [] OTHER -> 0

\* every step moves on to the next part of the run or brings its loop nearer
\* to its end
Progress == Rank(pc') > Rank(pc) \/ (pc' = pc /\ Remaining' < Remaining)

\* the run is not stuck before it exits
Running == Remaining >= 0 /\ (pc \notin {"exit0", "exit1"} => ENABLED Next)

Min(S) == CHOOSE x \in S : \A y \in S : x <= y

-----------------------------------------------------------------------------
(* Ancestry ordering *)

\* C1: in an acyclic store, a commit is appended to the order only after all
\* of its children: every parent stands strictly after each of its children.
AncestryOrdering ==
    \A k \in 1..Len(order) : \A ch \in graph[order[k]].children :
        \E j \in 1..(k - 1) : order[j] = ch

-----------------------------------------------------------------------------
(* Totality *)

IsPermutation(s, S) == Len(s) = Cardinality(S) /\ Range(s) = S

\* C2: in an acyclic store the sequencer loop comes to its end (every
\* iteration lowers a natural number), and the finished order holds every key
\* of the graph exactly once and nothing else.
Totality ==
    /\ [](Sorted => IsPermutation(order, DOMAIN graph))
    /\ [](pc = "sort" => Running)
    /\ [][pc = "sort" => Progress]_vars

IsMerge(c) ==
    /\ Len(graph[c].parents) = 2
    /\ graph[c].parents[1] # graph[c].parents[2]

TotalityWitness ==
    /\ pc = "exit0" /\ Len(order) = NumCommits
    /\ \E c \in DOMAIN graph : IsMerge(c)

-----------------------------------------------------------------------------
(* Selection rule *)

\* the commit the rule selects after the commits of ord, from the ready set S
Selected(ord, S) ==
    IF ord # <<>>
       /\ graph[ord[Len(ord)]].parents # <<>>
       /\ graph[ord[Len(ord)]].parents[1] \in S
    THEN graph[ord[Len(ord)]].parents[1]
    ELSE Min(S)

\* C3: every commit appended to the order is the first parent of the commit
\* appended before it when that parent is ready, and the smallest ready
\* commit in every other case.
SelectionRule ==
    [][order' # order =>
          order' = Append(order, Selected(order, Range(next_choices)))]_vars

\* a merge whose first parent was selected although the second one, still
\* ready, is smaller
SelectionRuleWitness ==
    /\ pc = "sort" /\ Len(order) = 2
    /\ IsMerge(order[1])
    /\ graph[order[1]].parents[1] = order[2]
    /\ graph[order[2]].parents = <<>>
    /\ graph[order[1]].parents[2] < order[2]
    /\ graph[order[1]].parents[2] \in Range(next_choices)

-----------------------------------------------------------------------------
(* Sticky-end insertion *)

\* the lines the rule of the renderer's contract gives for position k
ClaimedLines(k) ==
    <<commit_line(order[k], head_to_branches(branches))>> \o
    (IF k < Len(order) /\ order[k + 1] \notin Range(graph[order[k]].parents)
     THEN << Hashes(sorted(graph[order[k]].parents)) \o <<Eq>>,
             <<>>,
             <<Eq>> \o Hashes(sorted_set(graph[order[k + 1]].children)) >>
     ELSE <<>>)

RECURSIVE ClaimedOutput(_)
ClaimedOutput(k) ==
    IF k > Len(order) THEN <<>> ELSE ClaimedLines(k) \o ClaimedOutput(k + 1)

\* C4: the three sticky-end lines stand between the lines of two consecutive
\* commits exactly when the second is not a parent of the first, a first
\* commit without parents included.
StickyEndInsertion == pc = "exit0" => out = ClaimedOutput(1)

-----------------------------------------------------------------------------
(* Partial object store resilience *)

Absent == {c \in Reachable : ~store[c].exists}

Recovered ==
    /\ DOMAIN graph = Reachable
    /\ \A m \in Absent :
          /\ graph[m].parents = <<>>
          /\ graph[m].children = {c \in Reachable : m \in Succ(store, c)}
          /\ m \in Range(order)

-----------------------------------------------------------------------------
(* Determinism under enumeration order *)

\* C6: whatever the order of the branch list, the graph, the order and the
\* printed lines are the ones of this run.
Determinism ==
    pc = "exit0" =>
        \A bl \in BranchLists(refs) :
            LET g == build_commit_graph(store, bl)
                ord == topo_sort(g)
            IN /\ g = graph
               /\ ord = order
               /\ ordered_print(g, ord, head_to_branches(bl)) = out

\* two branches on one head, listed against the order of their names
DeterminismWitness ==
    /\ pc = "exit0"
    /\ Len(branches) = 2
    /\ branches[1][2] = branches[2][2]
    /\ branches[1][1] > branches[2][1]
    /\ Len(order) > 1

-----------------------------------------------------------------------------
(* Process exit contract *)

Discoverable == git_dirs \cap (0..cwd) # {}

\* C7: the run ends with exit code 1 exactly when no .git directory is in the
\* working directory or above it.
ExitContract ==
    /\ pc = "exit1" => ~Discoverable /\ stderr = <<NotInside>> /\ out = <<>>
    /\ pc \notin {"start", "exit1"} => Discoverable

-----------------------------------------------------------------------------
(* Mainline continuity *)

\* the commits met on the way from c along single parents, at most n of them
RECURSIVE ChainFrom(_, _)
ChainFrom(c, n) ==
    IF n = 0 THEN <<>>
    ELSE IF Len(StoreParents(store, c)) = 1
         THEN <<c>> \o ChainFrom(StoreParents(store, c)[1], n - 1)
         ELSE <<c>>

\* the store is the chain ch, newest first, and every branch is on ch[1]
IsChain(ch) ==
    /\ ch # <<>>
    /\ \A k \in 1..Len(ch) :
          /\ store[ch[k]].exists
          /\ StoreParents(store, ch[k]) = IF k < Len(ch) THEN <<ch[k + 1]>> ELSE <<>>
    /\ \A c \in Commits \ Range(ch) : ~store[c].exists
    /\ Heads = {ch[1]}

\* the chain below the head, when there is one head
TheChain == IF Cardinality(Heads) = 1 THEN ChainFrom(Min(Heads), NumCommits) ELSE <<>>

IsCommitLine(line) == line # <<>> /\ \A k \in 1..Len(line) : line[k] # Eq

\* C8: for a linear chain with its head at the newest commit the order is the
\* chain from head to root, and the output is one commit line per commit.
MainlineContinuity ==
    (Sorted /\ IsChain(TheChain)) =>
        /\ order = TheChain
        /\ pc = "exit0" =>
              /\ Len(out) = Len(TheChain)
              /\ \A k \in 1..Len(out) :
                    IsCommitLine(out[k]) /\ out[k][1] = Hash(TheChain[k])

\* a chain of three commits whose hashes are not in the order of the chain
MainlineContinuityWitness ==
    /\ pc = "exit0"
    /\ IsChain(TheChain) /\ Len(TheChain) = 3
    /\ TheChain[1] > TheChain[2] /\ TheChain[2] < TheChain[3]

-----------------------------------------------------------------------------
(* Builder result and closure *)

Closed ==
    \A x \in DOMAIN graph :
        Range(graph[x].parents) \cup graph[x].children \subseteq DOMAIN graph

Built == (pc = "build" /\ stack = <<>>) \/ pc \in {"sort", "print", "exit0"}

\* C9: the graph is closed after every iteration of the work list; when the
\* builder is done its keys are the commits reachable from the heads, the
\* parents are those of the objects in recorded order, and y is a parent of x
\* exactly when x is a child of y.
BuilderResult ==
    /\ Closed
    /\ Built =>
          /\ DOMAIN graph = Reachable
          /\ \A x \in DOMAIN graph : graph[x].parents = StoreParents(store, x)
          /\ \A x, y \in Commits :
                (x \in DOMAIN graph /\ y \in Range(graph[x].parents))
                    <=> (y \in DOMAIN graph /\ x \in graph[y].children)

\* a merge read from the store, with an unreachable commit left out
BuilderResultWitness ==
    /\ pc = "build" /\ stack = <<>>
    /\ \E c \in DOMAIN graph : IsMerge(c)
    /\ \E c \in Commits : store[c].exists /\ c \notin DOMAIN graph

-----------------------------------------------------------------------------
(* Cycles and repeated parents *)

Tainted == {c \in DOMAIN graph :
               \E d \in DOMAIN graph : OnCycle(store, d) /\ c \in Closure(store, {d})}

\* C10: no commit is expanded or emitted twice, and the commits missing from
\* the order are the ones on a cycle or reached from a cycle.
InvalidInput ==
    /\ \A a, b \in 1..Len(order) : order[a] = order[b] => a = b
    /\ Sorted => DOMAIN graph \ Range(order) = Tainted

====
